---- MODULE Spec2Model ----
(***************************************************************************)
(* Model of estimate_financial_results (src/src/evaluate.py).              *)
(*                                                                         *)
(* One behaviour is one call.  The inputs (data, y_true, y_pred and the    *)
(* two flags) are drawn in Init; the actions are the steps of the call:    *)
(* attaching the two columns, the per-store loop, the per-(store,item)     *)
(* aggregation, the overall aggregation, and the except clause.            *)
(*                                                                         *)
(* Numbers: float64 values are modelled as exact rationals <<n, d>> with   *)
(* d > 0 in lowest terms; the missing value NaN is <<0, 0>>.  Log-space    *)
(* inputs are fixed-point codes (thousandths) on a small grid and expm1    *)
(* is the table of its values on that grid.                                *)
(***************************************************************************)
EXTENDS Integers, Sequences, FiniteSets

VARIABLES data, y_true, y_pred, per_store, per_store_item,
          pc, financial_results, store_id, results_stores,
          unrounded, returned, raised

vars == <<data, y_true, y_pred, per_store, per_store_item,
          pc, financial_results, store_id, results_stores,
          unrounded, returned, raised>>

inputs == <<data, y_true, y_pred, per_store, per_store_item>>

-----------------------------------------------------------------------------
(* Bounds and program constants *)

\* at most this many freely chosen rows follow the base rows of data
MaxRows == 2

\* range(1, 11): the store ids the per-store loop visits are 1..NumStores
NumStores == 10

\* the reporting period length, the literal 93
Period == 93

-----------------------------------------------------------------------------
(* float64 arithmetic, as exact rationals *)

Abs(x) == IF x < 0 THEN -x ELSE x

RECURSIVE GCD(_, _)
GCD(a, b) == IF b = 0 THEN a ELSE GCD(b, a % b)

Rat(n, d) == LET g == GCD(Abs(n), d) IN <<n \div g, d \div g>>

NaN == <<0, 0>>

IsNaN(r) == r[2] = 0

Zero == Rat(0, 1)

RAdd(a, b) == Rat(a[1] * b[2] + b[1] * a[2], a[2] * b[2])

RSub(a, b) == Rat(a[1] * b[2] - b[1] * a[2], a[2] * b[2])

RAbs(a) == <<Abs(a[1]), a[2]>>

RLe(a, b) == a[1] * b[2] <= b[1] * a[2]

\* a / k and a * k for an integer k > 0
RDiv(a, k) == Rat(a[1], a[2] * k)

RMul(a, k) == Rat(a[1] * k, a[2])

\* rounding that sends ties upwards
RoundHalfUp(r) ==
    IF IsNaN(r) THEN NaN
    ELSE LET q == r[1] \div r[2]
             m == r[1] % r[2]
         IN  IF 2 * m < r[2] THEN <<q, 1>> ELSE <<q + 1, 1>>

\* numpy's round to 0 decimals: nearest integer, ties to the even integer
RoundValue(r) ==
    IF IsNaN(r) THEN NaN
    ELSE LET q == r[1] \div r[2]
             m == r[1] % r[2]
         IN  IF 2 * m < r[2] THEN <<q, 1>>
             ELSE IF 2 * m > r[2] THEN <<q + 1, 1>>
             ELSE IF q % 2 = 0 THEN <<q, 1>> ELSE <<q + 1, 1>>

\* np.expm1 on the grid of log-space codes (thousandths):
\* ln(1/2), 0, ln(3/2), ln 2, ln 3
Expm1(x) ==
    CASE x = -693 -> Rat(-1, 2)
      [] x = 0    -> Rat(0, 1)
      [] x = 405  -> Rat(1, 2)
      [] x = 693  -> Rat(1, 1)
      [] x = 1099 -> Rat(2, 1)

-----------------------------------------------------------------------------
(* Series and frame helpers *)

\* Series.sum(): missing values are skipped, the empty sum is 0
RECURSIVE SumSkipNa(_)
SumSkipNa(s) ==
    IF s = <<>> THEN Zero
    ELSE LET rest == SumSkipNa(Tail(s))
         IN  IF IsNaN(Head(s)) THEN rest ELSE RAdd(Head(s), rest)

\* the number of values that are not missing
RECURSIVE CountNotNa(_)
CountNotNa(s) ==
    IF s = <<>> THEN 0
    ELSE (IF IsNaN(Head(s)) THEN 0 ELSE 1) + CountNotNa(Tail(s))

\* Series.mean(): the mean of the values that are not missing, NaN if none
MeanSkipNa(s) ==
    IF CountNotNa(s) = 0 THEN NaN ELSE RDiv(SumSkipNa(s), CountNotNa(s))

Column(frame, c) == [i \in 1..Len(frame) |-> frame[i][c]]

\* an increasing sequence of the elements of a finite set of integers
RECURSIVE SortedSeq(_)
SortedSeq(S) ==
    IF S = {} THEN <<>>
    ELSE LET m == CHOOSE x \in S : \A y \in S : x <= y
         IN  <<m>> \o SortedSeq(S \ {m})

-----------------------------------------------------------------------------
(* Lines 24-26: the working frame and its two attached columns *)

\* the position of label l in a Series index, 0 when the label is absent
PosOf(index, l) ==
    IF \E j \in 1..Len(index) : index[j] = l
    THEN CHOOSE j \in 1..Len(index) : index[j] = l
    ELSE 0

\* Series.reset_index(drop=True): the labels become 0..m-1, the values stay
ResetIndex(s) == [s EXCEPT !.index = [j \in 1..Len(s.values) |-> j - 1]]

\* np.expm1 of a Series or array: elementwise, the labels are kept
Expm1Series(s) ==
    [s EXCEPT !.values = [j \in 1..Len(s.values) |-> Expm1(s.values[j])]]

\* frame[col] = Series: the Series is reindexed to the frame's labels 0..n-1;
\* a label the Series lacks gives NaN, a label the frame lacks is dropped
AlignToRows(s, n) ==
    [i \in 1..n |->
        LET j == PosOf(s.index, i - 1)
        IN  IF j = 0 THEN NaN ELSE s.values[j]]

\* frame[col] = ndarray: by position
ByPosition(s, n) == [i \in 1..n |-> s.values[i]]

\* line 25: np.expm1(y_true.reset_index(drop=True)) assigned to 'sales'
SalesColumn(yt, n) == AlignToRows(Expm1Series(ResetIndex(yt)), n)

\* line 26: np.expm1(y_pred) assigned to 'predictions'
PredictionsColumn(yp, n) ==
    IF yp.kind = "array"
    THEN ByPosition(Expm1Series(yp), n)
    ELSE AlignToRows(Expm1Series(yp), n)

\* line 26 raises ValueError when an ndarray's length is not the frame's
AttachRaises(d, yp) == yp.kind = "array" /\ Len(yp.values) # Len(d.rows)

\* lines 24-26: data.copy().reset_index()[['date','store','item']] with the
\* two columns attached
FinancialResults(d, yt, yp) ==
    LET n == Len(d.rows)
        sales == SalesColumn(yt, n)
        predictions == PredictionsColumn(yp, n)
    IN  [i \in 1..n |->
            [date |-> d.rows[i].date, store |-> d.rows[i].store,
             item |-> d.rows[i].item,
             sales |-> sales[i], predictions |-> predictions[i]]]

-----------------------------------------------------------------------------
(* The metric and the aggregations *)

\* sklearn's input validation: at least one sample, no missing value
MaeDefined(s, p) ==
    /\ Len(s) > 0
    /\ \A i \in 1..Len(s) : ~IsNaN(s[i]) /\ ~IsNaN(p[i])

RECURSIVE SumAbsDiff(_, _)
SumAbsDiff(s, p) ==
    IF s = <<>> THEN Zero
    ELSE RAdd(RAbs(RSub(Head(s), Head(p))), SumAbsDiff(Tail(s), Tail(p)))

\* mean_absolute_error(s, p)
MeanAbsoluteError(s, p) == RDiv(SumAbsDiff(s, p), Len(s))

\* frame.groupby(['date'])[['sales','predictions']].sum().reset_index()
DailyPredSales(frame) ==
    LET ds == SortedSeq({frame[i].date : i \in 1..Len(frame)})
    IN  [k \in 1..Len(ds) |->
            LET rows == SelectSeq(frame, LAMBDA r : r.date = ds[k])
            IN  [date |-> ds[k],
                 sales |-> SumSkipNa(Column(rows, "sales")),
                 predictions |-> SumSkipNa(Column(rows, "predictions"))]]

\* the "MAE per day" of lines 44-45 and 94-95
DailyMae(frame) ==
    LET daily == DailyPredSales(frame)
    IN  MeanAbsoluteError(Column(daily, "sales"), Column(daily, "predictions"))

DailyMaeDefined(frame) ==
    LET daily == DailyPredSales(frame)
    IN  MaeDefined(Column(daily, "sales"), Column(daily, "predictions"))

\* a slip that swaps the signs of the scenario columns
WithScenariosSwapped(key, total, avg, mae) ==
    [key |-> key, total |-> total, avg |-> avg, mae |-> mae,
     worst_avg |-> RAdd(avg, mae), best_avg |-> RSub(avg, mae),
     worst_total |-> RAdd(total, RMul(mae, Period)),
     best_total |-> RSub(total, RMul(mae, Period))]

\* the scenario columns: average -/+ MAE and total -/+ MAE * 93
WithScenarios(key, total, avg, mae) ==
    [key |-> key, total |-> total, avg |-> avg, mae |-> mae,
     worst_avg |-> RSub(avg, mae), best_avg |-> RAdd(avg, mae),
     worst_total |-> RSub(total, RMul(mae, Period)),
     best_total |-> RAdd(total, RMul(mae, Period))]

\* round(DataFrame): every float column rounded, the key columns unchanged
RoundRow(r) ==
    [key |-> r.key, total |-> RoundValue(r.total), avg |-> RoundValue(r.avg),
     mae |-> RoundValue(r.mae),
     worst_avg |-> RoundValue(r.worst_avg), best_avg |-> RoundValue(r.best_avg),
     worst_total |-> RoundValue(r.worst_total),
     best_total |-> RoundValue(r.best_total)]

RoundTable(t) == [i \in 1..Len(t) |-> RoundRow(t[i])]

-----------------------------------------------------------------------------
(* Lines 28-71: one row per store id *)

\* a slip that forgets the filter
StoreDataAll(frame, sid) == frame

\* line 35: financial_results.loc[financial_results['store'] == store_id]
StoreData(frame, sid) == SelectSeq(frame, LAMBDA r : r.store = sid)

\* line 45 raises when the store has no row (no date group)
StoreRowDefined(frame, sid) == DailyMaeDefined(StoreData(frame, sid))

\* line 38: store_i_data['predictions'].sum()
StoreTotal(frame, sid) == SumSkipNa(Column(StoreData(frame, sid), "predictions"))

\* lines 35-65: the result row of one store
StoreRow(frame, sid) ==
    LET store_i_data == StoreData(frame, sid)
        store_i_total_predictions == StoreTotal(frame, sid)
        store_i_avg_predictions == RDiv(store_i_total_predictions, Period)
        daily_mae == DailyMae(store_i_data)
    IN  WithScenarios(<<sid>>, store_i_total_predictions,
                      store_i_avg_predictions, daily_mae)

-----------------------------------------------------------------------------
(* Lines 73-86: one row per (store, item) group *)

PairLess(a, b) == a[1] < b[1] \/ (a[1] = b[1] /\ a[2] < b[2])

\* groupby sorts its keys: the distinct (store, item) pairs in increasing order
RECURSIVE SortedPairs(_)
SortedPairs(S) ==
    IF S = {} THEN <<>>
    ELSE LET m == CHOOSE x \in S : \A y \in S : x = y \/ PairLess(x, y)
         IN  <<m>> \o SortedPairs(S \ {m})

GroupKeys(frame) ==
    SortedPairs({<<frame[i].store, frame[i].item>> : i \in 1..Len(frame)})

GroupRows(frame, k) ==
    SelectSeq(frame, LAMBDA r : r.store = k[1] /\ r.item = k[2])

\* line 74: groupby(['store','item'])['predictions'].sum().reset_index()
SumPredItems(frame) ==
    LET keys == GroupKeys(frame)
    IN  [j \in 1..Len(keys) |->
            [store |-> keys[j][1], item |-> keys[j][2],
             predictions |->
                 SumSkipNa(Column(GroupRows(frame, keys[j]), "predictions"))]]

\* line 75: groupby(['store','item'])['predictions'].mean().reset_index()
AvgPredItems(frame) ==
    LET keys == GroupKeys(frame)
    IN  [j \in 1..Len(keys) |->
            [store |-> keys[j][1], item |-> keys[j][2],
             predictions |->
                 MeanSkipNa(Column(GroupRows(frame, keys[j]), "predictions"))]]

\* line 76: the metric applied to the rows of each group
GroupMae(g) == MeanAbsoluteError(Column(g, "sales"), Column(g, "predictions"))

MaeItems(frame) ==
    LET keys == GroupKeys(frame)
    IN  [j \in 1..Len(keys) |->
            [store |-> keys[j][1], item |-> keys[j][2],
             MAE |-> GroupMae(GroupRows(frame, keys[j]))]]

\* line 76 raises when a group holds a missing sales or prediction value
MaeItemsDefined(frame) ==
    \A k \in {<<frame[i].store, frame[i].item>> : i \in 1..Len(frame)} :
        LET g == GroupRows(frame, k)
        IN  MaeDefined(Column(g, "sales"), Column(g, "predictions"))

\* lines 76-79 raise on a frame of no rows as well: groupby.apply has no
\* group to call the metric on and its empty result carries no MAE column
\* to merge and subtract
ItemsDefined(frame) == frame # <<>> /\ MaeItemsDefined(frame)

RECURSIVE Concat(_)
Concat(ss) == IF ss = <<>> THEN <<>> ELSE Head(ss) \o Concat(Tail(ss))

\* a merge that forgets its keys: every row of L with every row of R
MergeCross(L, R) ==
    Concat([i \in 1..Len(L) |-> [k \in 1..Len(R) |-> <<L[i], R[k]>>]])

\* pd.merge(L, R, how='inner', on=['store','item']): the pairs of rows with
\* equal keys, in the order of L
MergeInner(L, R) ==
    Concat([i \in 1..Len(L) |->
        LET rs == SelectSeq(R, LAMBDA r : r.store = L[i].store
                                          /\ r.item = L[i].item)
        IN  [k \in 1..Len(rs) |-> <<L[i], rs[k]>>]])

\* lines 74-83: the unrounded per-(store,item) table
ItemsResults(frame) ==
    LET m1 == MergeInner(SumPredItems(frame), AvgPredItems(frame))
        sum_avg == [i \in 1..Len(m1) |->
                       [store |-> m1[i][1].store, item |-> m1[i][1].item,
                        total |-> m1[i][1].predictions,
                        avg |-> m1[i][2].predictions]]
        m2 == MergeInner(sum_avg, MaeItems(frame))
    IN  [i \in 1..Len(m2) |->
            WithScenarios(<<m2[i][1].store, m2[i][1].item>>,
                          m2[i][1].total, m2[i][1].avg, m2[i][2].MAE)]

-----------------------------------------------------------------------------
(* Lines 89-117: the overall row *)

OverallDefined(frame) == DailyMaeDefined(frame)

\* line 90: financial_results['predictions'].sum()
OverallTotal(frame) == SumSkipNa(Column(frame, "predictions"))

OverallRow(frame) ==
    LET sum_pred == OverallTotal(frame)
        avg_pred == RDiv(sum_pred, Period)
        daily_mae == DailyMae(frame)
    IN  WithScenarios(<<>>, sum_pred, avg_pred, daily_mae)

-----------------------------------------------------------------------------
(* Control: the branch taken and the except clause *)

NoTable == [kind |-> "none", rows |-> <<>>]

\* a slip that tests per_store_item first
BranchItemsFirst(ps, psi) ==
    IF psi THEN "items" ELSE IF ps THEN "stores" ELSE "overall"

\* lines 28 and 73: if per_store ... elif per_store_item ... else overall
Branch(ps, psi) ==
    IF ps THEN "stores" ELSE IF psi THEN "items" ELSE "overall"

\* a slip that hands back what the loop has collected instead of raising
ExceptClauseReturnsPartial(partial) ==
    [raised |-> FALSE,
     returned |-> [kind |-> "stores", rows |-> RoundTable(partial)]]

\* lines 119-120: any exception is re-raised as CustomException; whatever
\* the loop has collected so far is dropped
ExceptClause(partial) == [raised |-> TRUE, returned |-> NoTable]

-----------------------------------------------------------------------------
(* The inputs of a call *)

Dates == {1, 2}

\* store ids of the freely chosen rows: one the loop visits, one it does not
StoreIds == {1, NumStores + 1}

Items == {1, 2}

\* the log-space codes (y_true, y_pred) of a freely chosen row:
\* sales 0 with prediction 1/2, or sales 1 with prediction -1/2
ValuePairs == {<<0, 405>>, <<693, -693>>}

\* the (store, item) keys of a freely chosen row: the store the loop does
\* not visit sells item 1 only
StoreItems == {k \in StoreIds \X Items : k[1] <= NumStores \/ k[2] = 1}

InputRow ==
    {[date |-> d, store |-> k[1], item |-> k[2], yt |-> v[1], yp |-> v[2]] :
        d \in Dates, k \in StoreItems, v \in ValuePairs}

\* b base rows, one per store id 1..b, each with sales 2 and prediction 1
BaseRows(b) ==
    [s \in 1..b |-> [date |-> 1, store |-> s, item |-> 1,
                     yt |-> 1099, yp |-> 693]]

\* how the caller's objects are shaped: the row labels of data, the length
\* (relative to data) and labels of y_true, and the type, length and labels
\* of y_pred.  The default shape and every single deviation from it; a
\* deviating shape comes with fewer than MaxRows freely chosen rows.
DefaultShape ==
    [di |-> "range", tl |-> 0, ti |-> "range",
     pk |-> "series", pl |-> 0, pi |-> "range"]

Shapes ==
    { DefaultShape,
      [DefaultShape EXCEPT !.di = "reversed"],
      [DefaultShape EXCEPT !.tl = -1],
      [DefaultShape EXCEPT !.tl = 1],
      [DefaultShape EXCEPT !.ti = "reversed"],
      [DefaultShape EXCEPT !.pl = -1],
      [DefaultShape EXCEPT !.pl = 1],
      [DefaultShape EXCEPT !.pi = "reversed"],
      [DefaultShape EXCEPT !.pi = "shifted"],
      [DefaultShape EXCEPT !.pk = "array"],
      [DefaultShape EXCEPT !.pk = "array", !.pl = 1] }

\* the labels of an object of m rows
Labels(kind, m) ==
    [j \in 1..m |->
        CASE kind = "range"    -> j - 1
          [] kind = "reversed" -> m - j
          [] kind = "shifted"  -> j]

\* the values cut or extended by one (the extra value is the code 0)
Resize(values, diff) ==
    CASE diff = 0  -> values
      [] diff = 1  -> Append(values, 0)
      [] diff = -1 -> SubSeq(values, 1, Len(values) - 1)

MakeSeries(kind, values, diff, labels) ==
    LET v == Resize(values, diff)
    IN  [kind |-> kind, index |-> Labels(labels, Len(v)), values |-> v]

Init ==
    \E b \in {0, NumStores}, n \in 0..MaxRows :
      \E extra \in [1..n -> InputRow], sh \in Shapes :
        LET rows == BaseRows(b) \o extra
        IN  /\ sh = DefaultShape \/ n < MaxRows
            /\ (sh.tl = -1 \/ sh.pl = -1) => Len(rows) > 0
            /\ data = [index |-> Labels(sh.di, Len(rows)),
                       rows |-> [i \in 1..Len(rows) |->
                                   [date |-> rows[i].date,
                                    store |-> rows[i].store,
                                    item |-> rows[i].item]]]
            /\ y_true = MakeSeries("series", Column(rows, "yt"), sh.tl, sh.ti)
            /\ y_pred = MakeSeries(sh.pk, Column(rows, "yp"), sh.pl, sh.pi)
            /\ per_store \in BOOLEAN
            /\ per_store_item \in BOOLEAN
            /\ pc = "start"
            /\ financial_results = <<>>
            /\ store_id = 1
            /\ results_stores = <<>>
            /\ unrounded = <<>>
            /\ returned = NoTable
            /\ raised = FALSE

-----------------------------------------------------------------------------
(* The steps of a call *)

\* the except clause ends the call
Raise ==
    /\ pc' = "done"
    /\ raised' = ExceptClause(results_stores).raised
    /\ returned' = ExceptClause(results_stores).returned
    /\ UNCHANGED <<inputs, financial_results, store_id, results_stores,
                   unrounded>>

\* a return statement ends the call with the rounded table
Return(kind, table) ==
    /\ pc' = "done"
    /\ unrounded' = table
    /\ returned' = [kind |-> kind, rows |-> RoundTable(table)]
    /\ UNCHANGED <<inputs, financial_results, store_id, results_stores,
                   raised>>

\* lines 24-26
Attach ==
    /\ pc = "start"
    /\ ~AttachRaises(data, y_pred)
    /\ financial_results' = FinancialResults(data, y_true, y_pred)
    /\ pc' = Branch(per_store, per_store_item)
    /\ UNCHANGED <<inputs, store_id, results_stores, unrounded, returned,
                   raised>>

AttachFails ==
    /\ pc = "start"
    /\ AttachRaises(data, y_pred)
    /\ Raise

\* lines 33-65: one iteration of the loop over range(1, 11)
StoreIteration ==
    /\ pc = "stores"
    /\ store_id <= NumStores
    /\ StoreRowDefined(financial_results, store_id)
    /\ results_stores' =
           Append(results_stores, StoreRow(financial_results, store_id))
    /\ store_id' = store_id + 1
    /\ UNCHANGED <<inputs, pc, financial_results, unrounded, returned,
                   raised>>

StoreIterationFails ==
    /\ pc = "stores"
    /\ store_id <= NumStores
    /\ ~StoreRowDefined(financial_results, store_id)
    /\ Raise

\* lines 68-71
StoresReturn ==
    /\ pc = "stores"
    /\ store_id > NumStores
    /\ Return("stores", results_stores)

\* lines 74-86
StoreItem ==
    /\ pc = "items"
    /\ ItemsDefined(financial_results)
    /\ Return("items", ItemsResults(financial_results))

StoreItemFails ==
    /\ pc = "items"
    /\ ~ItemsDefined(financial_results)
    /\ Raise

\* lines 90-117
Overall ==
    /\ pc = "overall"
    /\ OverallDefined(financial_results)
    /\ Return("overall", <<OverallRow(financial_results)>>)

OverallFails ==
    /\ pc = "overall"
    /\ ~OverallDefined(financial_results)
    /\ Raise

Next ==
    \/ Attach
    \/ AttachFails
    \/ StoreIteration
    \/ StoreIterationFails
    \/ StoresReturn
    \/ StoreItem
    \/ StoreItemFails
    \/ Overall
    \/ OverallFails

Spec == Init /\ [][Next]_vars

-----------------------------------------------------------------------------
(* Properties *)

\* the call has returned a table
TableReturned == pc = "done" /\ ~raised

\* lines 24-26 have run
Attached == pc \in {"stores", "items", "overall"} \/ TableReturned

\* the rows of the working frame a result row with this key stands for:
\* all rows (key <<>>), a store's rows (<<s>>), a group's rows (<<s, i>>)
RowsOfKey(key) ==
    SelectSeq(financial_results,
              LAMBDA r : /\ (Len(key) >= 1 => r.store = key[1])
                         /\ (Len(key) = 2 => r.item = key[2]))

\* the sum of a column over the rows of one date
DaySum(rows, d, c) ==
    SumSkipNa(Column(SelectSeq(rows, LAMBDA r : r.date = d), c))

\* the mean, over the distinct dates of rows, of
\* |summed sales - summed predictions|
MaeOfDailySums(rows) ==
    LET ds == SortedSeq({rows[i].date : i \in 1..Len(rows)})
        errs == [k \in 1..Len(ds) |->
                    RAbs(RSub(DaySum(rows, ds[k], "sales"),
                              DaySum(rows, ds[k], "predictions")))]
    IN  RDiv(SumSkipNa(errs), Len(ds))

\* C1: in every granularity the MAE of a result row is the MAE of the
\* daily-aggregated series of its group (sales and predictions summed per
\* date first), also when a group holds several rows for one date.
C1_MaeOnDailySums ==
    TableReturned =>
        \A i \in 1..Len(unrounded) :
            unrounded[i].mae = MaeOfDailySums(RowsOfKey(unrounded[i].key))

\* C2: the i-th true value and the i-th predicted value are attached to the
\* i-th row of data, whatever labels data, y_true or y_pred carry.
C2_AttachedByPosition ==
    Attached =>
        /\ Len(financial_results) = Len(data.rows)
        /\ \A i \in 1..Len(financial_results) :
             /\ financial_results[i].date = data.rows[i].date
             /\ financial_results[i].store = data.rows[i].store
             /\ financial_results[i].item = data.rows[i].item
             /\ i <= Len(y_true.values) =>
                    financial_results[i].sales = Expm1(y_true.values[i])
             /\ i <= Len(y_pred.values) =>
                    financial_results[i].predictions = Expm1(y_pred.values[i])

\* C3: in every granularity the unrounded average predicted sales (daily)
\* of a result row is its total predicted sales divided by 93.
C3_AverageIsTotalOverPeriod ==
    TableReturned =>
        \A i \in 1..Len(unrounded) :
            unrounded[i].avg = RDiv(unrounded[i].total, Period)

\* C6: when the length of y_true or of y_pred differs from the number of
\* rows of data, the call ends with the wrapped error, never with a table.
C6_LengthMismatchRaises ==
    (/\ pc = "done"
     /\ \/ Len(y_true.values) # Len(data.rows)
        \/ Len(y_pred.values) # Len(data.rows))
    => raised /\ returned = NoTable

\* the distinct (store, item) pairs of the input
InputPairs == {<<data.rows[i].store, data.rows[i].item>> : i \in 1..Len(data.rows)}

InputStores == {data.rows[i].store : i \in 1..Len(data.rows)}

C5_TableOrError ==
    /\ pc # "done" => ~raised /\ returned = NoTable
    /\ pc = "done" =>
         \/ raised /\ returned = NoTable
         \/ /\ ~raised
            /\ returned.kind \in {"overall", "stores", "items"}
            /\ Len(returned.rows) = Len(unrounded)
            /\ returned.kind = "stores" => Len(returned.rows) = NumStores

\* the loop had collected rows for stores 1..k-1 when store k failed
C5_Witness ==
    /\ pc = "done"
    /\ raised
    /\ results_stores # <<>>
    /\ store_id > 1

\* C7: in every row of a returned table, after rounding,
\* worst average <= average <= best average and
\* worst total <= total <= best total.
C7_ScenarioOrdering ==
    TableReturned =>
        \A i \in 1..Len(returned.rows) :
            LET r == returned.rows[i]
            IN  /\ \A c \in {"total", "avg", "mae", "worst_avg", "best_avg",
                              "worst_total", "best_total"} : ~IsNaN(r[c])
                /\ RLe(r.worst_avg, r.avg) /\ RLe(r.avg, r.best_avg)
                /\ RLe(r.worst_total, r.total) /\ RLe(r.total, r.best_total)

\* a returned row with a non-zero rounded MAE and a negative total
C7_Witness ==
    /\ TableReturned
    /\ \E i \in 1..Len(returned.rows) :
          /\ returned.rows[i].mae[1] > 0
          /\ returned.rows[i].total[1] < 0
          /\ returned.rows[i].worst_total # returned.rows[i].best_total

NumericColumns ==
    {"total", "avg", "mae", "worst_avg", "best_avg", "worst_total",
     "best_total"}

\* k is an integer nearest to x, and the even one when x lies halfway
\* between two integers
NearestTiesEven(k, x) ==
    /\ k[2] = 1
    /\ x[2] > 0
    /\ 2 * Abs(k[1] * x[2] - x[1]) <= x[2]
    /\ 2 * Abs(k[1] * x[2] - x[1]) = x[2] => k[1] % 2 = 0

\* C8: every numeric value of a returned table is an integer, the rounding
\* (ties to even) of the unrounded value; the rounding is applied once, so a
\* scenario value is the rounding of (unrounded estimate -/+ unrounded MAE
\* term).
C8_RoundedOnce ==
    TableReturned =>
        /\ Len(returned.rows) = Len(unrounded)
        /\ \A i \in 1..Len(unrounded) :
             LET u == unrounded[i]
                 r == returned.rows[i]
             IN  /\ r.key = u.key
                 /\ \A c \in NumericColumns : NearestTiesEven(r[c], u[c])
                 /\ NearestTiesEven(r.worst_avg, RSub(u.avg, u.mae))
                 /\ NearestTiesEven(r.best_avg, RAdd(u.avg, u.mae))
                 /\ NearestTiesEven(r.worst_total,
                                    RSub(u.total, RMul(u.mae, Period)))
                 /\ NearestTiesEven(r.best_total,
                                    RAdd(u.total, RMul(u.mae, Period)))

\* a returned row whose unrounded MAE is a tie (an odd number of halves) and
\* whose best average is not the sum of the rounded average and rounded MAE
C8_Witness ==
    /\ TableReturned
    /\ \E i \in 1..Len(unrounded) :
          /\ unrounded[i].mae[2] = 2
          /\ returned.rows[i].best_avg #
                 RAdd(returned.rows[i].avg, returned.rows[i].mae)

\* C9: with both flags true the per_store table (one row per store id
\* 1..10) is returned and the per_store_item branch is never entered; the
\* per_store_item table is returned only when per_store is false, and the
\* overall table only when both flags are false.
C9_BranchPrecedence ==
    /\ pc = "items" => ~per_store /\ per_store_item
    /\ pc = "stores" => per_store
    /\ pc = "overall" => ~per_store /\ ~per_store_item
    /\ TableReturned =>
         /\ returned.kind = "stores" <=> per_store
         /\ returned.kind = "items" <=> (~per_store /\ per_store_item)
         /\ returned.kind = "overall" <=> (~per_store /\ ~per_store_item)
         /\ (per_store /\ per_store_item) =>
                /\ Len(returned.rows) = NumStores
                /\ \A k \in 1..NumStores : returned.rows[k].key = <<k>>

\* both flags true and the per_store table returned
C9_Witness ==
    /\ TableReturned
    /\ per_store /\ per_store_item
    /\ returned.kind = "stores"
    /\ Len(returned.rows) = NumStores

\* the sum of the predictions that are present on the rows at positions S of
\* the working frame
RECURSIVE PredSum(_)
PredSum(S) ==
    IF S = {} THEN Zero
    ELSE LET i == CHOOSE x \in S : TRUE
             p == financial_results[i].predictions
         IN  IF IsNaN(p) THEN PredSum(S \ {i}) ELSE RAdd(p, PredSum(S \ {i}))

Positions == 1..Len(financial_results)

Inside == {i \in Positions : financial_results[i].store \in 1..NumStores}

Outside == Positions \ Inside

\* the sum of a column of totals
RECURSIVE SumTotals(_)
SumTotals(t) ==
    IF t = <<>> THEN Zero ELSE RAdd(Head(t), SumTotals(Tail(t)))

\* the unrounded totals the three granularities compute from one frame (the
\* frame a call worked on stays as it is until the call ends)
PerStoreTotals == [k \in 1..NumStores |-> StoreTotal(financial_results, k)]

PerStoreItemTotals == Column(SumPredItems(financial_results), "predictions")

TotalsAgree ==
    /\ SumTotals(PerStoreTotals) = OverallTotal(financial_results)
    /\ OverallTotal(financial_results) = SumTotals(PerStoreItemTotals)

\* what every granularity's totals add up to, and what a returned table holds
TotalsCover ==
    /\ pc = "done" =>
         /\ SumTotals(PerStoreTotals) = PredSum(Inside)
         /\ OverallTotal(financial_results) = PredSum(Positions)
         /\ SumTotals(PerStoreItemTotals) = PredSum(Positions)
    /\ TableReturned =>
         SumTotals(Column(unrounded, "total")) =
             IF returned.kind = "stores" THEN PredSum(Inside)
             ELSE PredSum(Positions)

\* a row whose store id lies outside 1..10 and whose prediction is present
\* and not zero
OutsidePrediction ==
    \E i \in Outside :
        /\ ~IsNaN(financial_results[i].predictions)
        /\ financial_results[i].predictions # Zero

\* C10 as stated: the per_store totals add up to the predictions of the rows
\* with store id in 1..10, the overall total and the per_store_item totals to
\* those of all rows, and the three agree if and only if no row with a
\* non-zero prediction has a store id outside 1..10.
C10_AgreeIffNoOutsidePrediction ==
    /\ TotalsCover
    /\ pc = "done" => (TotalsAgree <=> ~OutsidePrediction)

\* C10 as amended: the three agree if and only if the predictions of the
\* rows with a store id outside 1..10 add up to zero.
C10_AgreeIffOutsideSumsToZero ==
    /\ TotalsCover
    /\ pc = "done" => (TotalsAgree <=> PredSum(Outside) = Zero)

\* a returned per_store table whose totals agree with the overall total
\* although rows outside 1..10 carry non-zero predictions
C10_Witness ==
    /\ TableReturned
    /\ returned.kind = "stores"
    /\ OutsidePrediction
    /\ TotalsAgree

====
